---- MODULE Spec2Model ----
(***************************************************************************)
(* State-machine model of the findash backend (src/src/findash):           *)
(* the transactions table, the request handlers of app.py, the CRUD and    *)
(* aggregation queries of crud.py and the CSV bulk import.                 *)
(*                                                                         *)
(* Amounts are integers counted in cents, the scale of the DECIMAL(10, 2)  *)
(* column.  A description is modelled by its length.  Time is a counter;   *)
(* ImportTime is the instant at which findash.database was imported.       *)
(***************************************************************************)
EXTENDS Integers, Sequences, FiniteSets

VARIABLES transactions, now, response

vars == <<transactions, now, response>>

(* ------------------------------ bounds --------------------------------- *)

MaxTxns == 2        \* rows the table may hold
MaxId == 3          \* largest id handed out
MaxTime == 1        \* last clock value
MaxPad == 10        \* failing rows put in front of a long CSV file
MaxSkip == 3        \* largest skip of a list request
MaxLimit == 3       \* largest limit of a list request

(* ------------------------- data_contract.py ---------------------------- *)

TransactionType == {"income", "expense", "transfer"}

Category ==
    {"salary", "freelance", "investment", "other_income", "food", "transport",
     "entertainment", "utilities", "rent", "shopping", "healthcare",
     "education", "other_expense", "transfer"}

DescriptionMinLength == 1
DescriptionMaxLength == 255

\* TransactionBase with ge=0 in place of gt=0.
TransactionBaseValidGe(amount, description, category, transaction_type) ==
    /\ amount >= 0
    /\ description >= DescriptionMinLength
    /\ description <= DescriptionMaxLength
    /\ category \in Category
    /\ transaction_type \in TransactionType

\* TransactionBase: amount gt=0, description 1..255, both enums members.
TransactionBaseValid(amount, description, category, transaction_type) ==
    /\ amount > 0
    /\ description >= DescriptionMinLength
    /\ description <= DescriptionMaxLength
    /\ category \in Category
    /\ transaction_type \in TransactionType

NoDate == -1

\* TransactionBase.date: default_factory=datetime.now when the caller gives none.
DateOrNow(date, clock) == IF date = NoDate THEN clock ELSE date

(* ---------------------------- database.py ------------------------------ *)

ImportTime == 0

\* Column(DateTime, default=datetime.now(UTC)): the default is the value the
\* call had when the class body ran, the same for every insert.
CreatedAtDefault == ImportTime

Max(a, b) == IF a >= b THEN a ELSE b
Min(a, b) == IF a <= b THEN a ELSE b

RECURSIVE MaxOf(_)
MaxOf(S) ==
    IF S = {} THEN 0
    ELSE LET x == CHOOSE y \in S : TRUE IN Max(x, MaxOf(S \ {x}))

\* Integer primary key of the transactions table: one more than the largest id.
NewId(db) == MaxOf({t.id : t \in db}) + 1

(* ------------------------------ crud.py -------------------------------- *)

\* create_transaction: add, commit, refresh.  The row gets the next id and
\* the column default for created_at; date comes from the validated input.
CrudCreateTransaction(db, amount, description, category, transaction_type, date) ==
    db \cup {[id |-> NewId(db),
              amount |-> amount,
              description |-> description,
              category |-> category,
              transaction_type |-> transaction_type,
              date |-> date,
              created_at |-> CreatedAtDefault]}

\* get_transaction: the rows with that id (.first() of the filter); {} is None.
CrudGetTransaction(db, transaction_id) == {t \in db : t.id = transaction_id}

\* delete_transaction without its commit: the row stays.
CrudDeleteTransactionNoCommit(db, transaction_id) ==
    [db |-> db, success |-> {t \in db : t.id = transaction_id} # {}]

\* delete_transaction: [db, success].
CrudDeleteTransaction(db, transaction_id) ==
    IF CrudGetTransaction(db, transaction_id) # {}
    THEN [db |-> db \ CrudGetTransaction(db, transaction_id), success |-> TRUE]
    ELSE [db |-> db, success |-> FALSE]

\* order_by(desc(date)): every order of the rows with dates non-increasing
\* (rows of equal date come in an order the engine picks).
RECURSIVE OrderByDateDesc(_)
OrderByDateDesc(S) ==
    IF S = {} THEN {<<>>}
    ELSE UNION {{<<t>> \o rest : rest \in OrderByDateDesc(S \ {t})} :
                t \in {u \in S : \A v \in S : u.date >= v.date}}

\* The page without its .offset(skip).
OffsetLimitNoOffset(ordered, skip, limit) ==
    SubSeq(ordered, 1, Min(Len(ordered), limit))

\* .offset(skip).limit(limit) on an ordered result.
OffsetLimit(ordered, skip, limit) ==
    SubSeq(ordered, skip + 1, Min(Len(ordered), skip + limit))

\* get_transactions: the pages the query may return.
CrudGetTransactions(db, skip, limit) ==
    {OffsetLimit(ordered, skip, limit) : ordered \in OrderByDateDesc(db)}

RECURSIVE SumAmount(_)
SumAmount(S) ==
    IF S = {} THEN 0
    ELSE LET t == CHOOSE u \in S : TRUE IN t.amount + SumAmount(S \ {t})

\* get_total_income filtering on "not EXPENSE".
GetTotalIncomeNotExpense(db) ==
    SumAmount({t \in db : t.transaction_type # "expense"})

\* get_total_income: func.sum over the INCOME rows, 0.00 when there is none.
GetTotalIncome(db) == SumAmount({t \in db : t.transaction_type = "income"})

\* get_total_expenses: func.sum over the EXPENSE rows, 0.00 when there is none.
GetTotalExpenses(db) == SumAmount({t \in db : t.transaction_type = "expense"})

\* get_transaction_count
GetTransactionCount(db) == Cardinality(db)

NoCategory == "None"

CategoryTotal(db, c) ==
    SumAmount({t \in db : t.transaction_type = "expense" /\ t.category = c})

\* get_top_expense_category: the categories the grouped query may put first
\* (largest total; equal totals in an order the engine picks), None without
\* expense rows.
GetTopExpenseCategory(db) ==
    LET cats == {t.category : t \in {u \in db : u.transaction_type = "expense"}}
    IN IF cats = {} THEN {NoCategory}
       ELSE {c \in cats : \A d \in cats : CategoryTotal(db, c) >= CategoryTotal(db, d)}

(* ------------------------- app.py: requests ---------------------------- *)

\* Request bodies of POST /transactions.
TransactionInputs ==
    {[amount |-> 1000, description |-> 6, category |-> "salary", transaction_type |-> "income"],
     [amount |-> 4000, description |-> 4, category |-> "food", transaction_type |-> "expense"],
     [amount |-> 4000, description |-> 255, category |-> "rent", transaction_type |-> "expense"],
     [amount |-> 700, description |-> 1, category |-> "transfer", transaction_type |-> "transfer"],
     [amount |-> 0, description |-> 4, category |-> "food", transaction_type |-> "expense"],
     [amount |-> -500, description |-> 4, category |-> "food", transaction_type |-> "income"],
     [amount |-> 1000, description |-> 0, category |-> "food", transaction_type |-> "expense"],
     [amount |-> 1000, description |-> 256, category |-> "food", transaction_type |-> "expense"],
     [amount |-> 1000, description |-> 4, category |-> "bogus", transaction_type |-> "expense"],
     [amount |-> 1000, description |-> 4, category |-> "food", transaction_type |-> "bogus"]}

DateInputs == {NoDate, 0}

\* Room left in the bounded table for the rows a handler is about to add.
Fits(db) == Cardinality(db) <= MaxTxns /\ \A t \in db : t.id <= MaxId

(* ------------------------- app.py: handlers ---------------------------- *)

\* No request is being served.
NoResponse == [op |-> "none"]

\* POST /transactions: the body is validated as TransactionCreate (422 when
\* it is not), then crud.create_transaction persists it.
CreateTransaction ==
    /\ response = NoResponse
    /\ \E body \in TransactionInputs, date \in DateInputs :
        LET valid == TransactionBaseValid(body.amount, body.description,
                                          body.category, body.transaction_type)
            db == CrudCreateTransaction(transactions, body.amount, body.description,
                                        body.category, body.transaction_type,
                                        DateOrNow(date, now))
        IN /\ valid => Fits(db)
           /\ transactions' = IF valid THEN db ELSE transactions
           /\ response' = [op |-> "create", body |-> body, date |-> date,
                           status |-> IF valid THEN 200 ELSE 422,
                           created |-> IF valid THEN db \ transactions ELSE {}]
           /\ UNCHANGED now

\* GET /transactions/{transaction_id}
GetTransaction ==
    /\ response = NoResponse
    /\ \E transaction_id \in 1..MaxId :
        LET found == CrudGetTransaction(transactions, transaction_id)
        IN /\ response' = [op |-> "get", transaction_id |-> transaction_id,
                           status |-> IF found = {} THEN 404 ELSE 200,
                           found |-> found]
           /\ UNCHANGED <<transactions, now>>

\* GET /transactions?skip&limit
GetTransactions ==
    /\ response = NoResponse
    /\ \E skip \in 0..MaxSkip, limit \in 0..MaxLimit :
        \E page \in CrudGetTransactions(transactions, skip, limit) :
            /\ response' = [op |-> "list", skip |-> skip, limit |-> limit,
                            status |-> 200, page |-> page]
            /\ UNCHANGED <<transactions, now>>

\* DELETE /transactions/{transaction_id}
DeleteTransaction ==
    /\ response = NoResponse
    /\ \E transaction_id \in 1..MaxId :
        LET out == CrudDeleteTransaction(transactions, transaction_id)
        IN /\ transactions' = out.db
           /\ response' = [op |-> "delete", transaction_id |-> transaction_id,
                           status |-> IF out.success THEN 200 ELSE 404]
           /\ UNCHANGED now

\* GET /dashboard/summary
GetDashboardSummary ==
    /\ response = NoResponse
    /\ \E top \in GetTopExpenseCategory(transactions) :
        /\ response' = [op |-> "summary", status |-> 200,
                        total_income |-> GetTotalIncome(transactions),
                        total_expenses |-> GetTotalExpenses(transactions),
                        net_worth |-> GetTotalIncome(transactions)
                                        - GetTotalExpenses(transactions),
                        transaction_count |-> GetTransactionCount(transactions),
                        top_expense_category |-> top]
        /\ UNCHANGED <<transactions, now>>

(* ------------------- app.py: POST /transactions/upload-csv ------------- *)

RequiredColumns == <<"amount", "description", "category", "transaction_type">>

ErrorsShown == 10

\* str(row["description"]): pandas reads an empty cell as NaN, whose str is
\* the three letters "nan".
StrDescription(cell) == IF cell = 0 THEN 3 ELSE cell

\* missing_columns: the required columns the header lacks, in required order.
MissingColumns(columns) ==
    SelectSeq(RequiredColumns, LAMBDA col : col \notin columns)

\* The row number without the + 1.
RowNumberZeroBased(index) == index

\* index + 1: the row number an error message carries.
RowNumber(index) == index + 1

\* One pass of the loop body for the row at `index` (0-based, as iterrows
\* gives it).  st holds the handler's locals and the session:
\* db, errors, successful_imports, and whether the session's transaction is
\* still active (a flush that fails leaves it rolled back, and the handler
\* never calls db.rollback()).
ProcessRow(st, row, index, clock) ==
    LET fail(kind, value) ==
            [st EXCEPT !.errors = Append(@, [row |-> RowNumber(index), kind |-> kind,
                                             value |-> value])]
    IN IF row.category \notin Category
       THEN fail("Invalid category", row.category)
       ELSE IF row.transaction_type \notin TransactionType
       THEN fail("Invalid transaction_type", row.transaction_type)
       ELSE IF ~row.amount.parses
       THEN fail("exception", "InvalidOperation")
       ELSE IF ~TransactionBaseValid(row.amount.value, StrDescription(row.description),
                                     row.category, row.transaction_type)
       THEN fail("exception", "ValidationError")
       ELSE IF ~st.active
       THEN fail("exception", "PendingRollbackError")
       ELSE IF row.flush = "fail"
       THEN [fail("exception", "OperationalError") EXCEPT !.active = FALSE]
       ELSE [st EXCEPT !.db = CrudCreateTransaction(@, row.amount.value,
                                  StrDescription(row.description), row.category,
                                  row.transaction_type, DateOrNow(NoDate, clock)),
                       !.successful_imports = @ + 1]

\* for index, row in df.iterrows()
RECURSIVE ProcessRows(_, _, _, _)
ProcessRows(st, rows, index, clock) ==
    IF index >= Len(rows) THEN st
    ELSE ProcessRows(ProcessRow(st, rows[index + 1], index, clock), rows, index + 1, clock)

\* errors, not cut.
TruncateNothing(errors) == errors

\* errors[:10]
Truncate(errors) == SubSeq(errors, 1, Min(Len(errors), ErrorsShown))

\* The body of the try block: the exception it raises ("none" when it
\* returns), the table it leaves, the errors list it built and the value it
\* returns or the detail of the exception.
TryBlock(db, content, clock) ==
    IF content.kind = "undecodable"
    THEN [raised |-> "UnicodeDecodeError", db |-> db, recorded |-> <<>>,
          value |-> [status_code |-> 0]]
    ELSE IF content.kind = "empty"
    THEN [raised |-> "EmptyDataError", db |-> db, recorded |-> <<>>,
          value |-> [status_code |-> 0]]
    ELSE IF content.kind = "malformed"
    THEN [raised |-> "ParserError", db |-> db, recorded |-> <<>>,
          value |-> [status_code |-> 0]]
    ELSE IF MissingColumns(content.columns) # <<>>
    THEN [raised |-> "HTTPException", db |-> db, recorded |-> <<>>,
          value |-> [status_code |-> 400,
                     detail |-> "Missing required columns",
                     missing |-> MissingColumns(content.columns)]]
    ELSE CHOOSE out \in
            {[raised |-> "none", db |-> st.db, recorded |-> st.errors,
              value |-> [message |-> "CSV processed successfully",
                         successful_imports |-> st.successful_imports,
                         total_rows |-> Len(content.rows),
                         errors |-> Truncate(st.errors)]] :
                st \in {ProcessRows([db |-> db, errors |-> <<>>,
                                     successful_imports |-> 0, active |-> TRUE],
                                    content.rows, 0, clock)}} : TRUE

\* The handler with its last except clause alone.
ExceptClausesCatchAll(out) ==
    [status |-> 500, body |-> [detail |-> "Error processing CSV",
                               str_e |-> [raised |-> out.raised, value |-> out.value]]]

\* The except clauses, tried in order: EmptyDataError, ParserError, Exception.
\* HTTPException is an Exception, so the last clause takes the 400 raised
\* inside the try block as well; its detail quotes str(e).
ExceptClauses(out) ==
    IF out.raised = "EmptyDataError"
    THEN [status |-> 400, body |-> [detail |-> "CSV file is empty"]]
    ELSE IF out.raised = "ParserError"
    THEN [status |-> 400, body |-> [detail |-> "Invalid CSV format"]]
    ELSE [status |-> 500, body |-> [detail |-> "Error processing CSV",
                                    str_e |-> [raised |-> out.raised,
                                               value |-> out.value]]]

\* The handler: the table it leaves, the status and body it answers with,
\* and the errors list it had built.
UploadCsv(db, file, clock) ==
    IF ~file.endswith_csv
    THEN [db |-> db, status |-> 400, body |-> [detail |-> "File must be a CSV"],
          recorded |-> <<>>]
    ELSE CHOOSE result \in
            {IF out.raised = "none"
             THEN [db |-> out.db, status |-> 200, body |-> out.value,
                   recorded |-> out.recorded]
             ELSE [db |-> out.db, status |-> ExceptClauses(out).status,
                   body |-> ExceptClauses(out).body, recorded |-> out.recorded] :
                out \in {TryBlock(db, file.content, clock)}} : TRUE

\* Data rows as pandas hands them to the loop.  flush is what the engine
\* answers to the row's INSERT should the handler get that far ("fail": the
\* statement raises, as when the database file is locked).
\* A row that imports: its empty description cell becomes "nan".
OkRow ==
    [amount |-> [parses |-> TRUE, value |-> 4000], description |-> 0,
     category |-> "food", transaction_type |-> "expense", flush |-> "ok"]

CsvRows ==
    {OkRow,
     [amount |-> [parses |-> TRUE, value |-> 1000], description |-> 6,
      category |-> "nan", transaction_type |-> "other", flush |-> "ok"],
     [amount |-> [parses |-> TRUE, value |-> 1000], description |-> 6,
      category |-> "food", transaction_type |-> "EXPENSE", flush |-> "ok"],
     [amount |-> [parses |-> TRUE, value |-> 0], description |-> 6,
      category |-> "food", transaction_type |-> "expense", flush |-> "ok"],
     [amount |-> [parses |-> TRUE, value |-> 1000], description |-> 256,
      category |-> "rent", transaction_type |-> "expense", flush |-> "ok"],
     [amount |-> [parses |-> TRUE, value |-> 1000], description |-> 6,
      category |-> "salary", transaction_type |-> "income", flush |-> "fail"]}

\* A row whose amount cell is no number: Decimal(str(...)) raises.
PadRow ==
    [amount |-> [parses |-> FALSE, value |-> 0], description |-> 6,
     category |-> "rent", transaction_type |-> "expense", flush |-> "ok"]

RECURSIVE Repeat(_, _)
Repeat(x, n) == IF n <= 0 THEN <<>> ELSE <<x>> \o Repeat(x, n - 1)

\* Every file of no, one or two of the rows above.
ShortRows ==
    {<<>>} \cup {<<r>> : r \in CsvRows} \cup {<<r, s>> : r \in CsvRows, s \in CsvRows}

\* What follows the failing rows of a long file.
PadTails == {<<>>} \cup {<<r>> : r \in CsvRows} \cup {<<r, OkRow>> : r \in CsvRows}

OneRow == {<<>>, <<OkRow>>}

AllColumns == {"amount", "description", "category", "transaction_type"}

Table(columns, rows) == [kind |-> "table", columns |-> columns, rows |-> rows]

\* Uploaded files: the short files, the same behind MaxPad failing rows,
\* headers with an extra column or lacking required ones, contents pandas
\* cannot read, and file names that do not end in .csv.
Files ==
    {[endswith_csv |-> TRUE, content |-> Table(AllColumns, rows)] : rows \in ShortRows}
    \cup {[endswith_csv |-> TRUE,
           content |-> Table(AllColumns, Repeat(PadRow, MaxPad) \o rows)] :
            rows \in PadTails}
    \cup {[endswith_csv |-> TRUE, content |-> Table(columns, rows)] :
            columns \in {AllColumns \cup {"date"}, AllColumns \ {"amount"},
                         {"amount", "description", "date"}},
            rows \in OneRow}
    \cup {[endswith_csv |-> TRUE, content |-> [kind |-> k, columns |-> {}, rows |-> <<>>]] :
            k \in {"empty", "malformed", "undecodable"}}
    \cup {[endswith_csv |-> FALSE, content |-> c] :
            c \in {Table(AllColumns, rows) : rows \in OneRow}
                  \cup {[kind |-> "empty", columns |-> {}, rows |-> <<>>]}}

UploadTransactionsCsv ==
    /\ response = NoResponse
    /\ \E file \in Files :
        \E out \in {UploadCsv(transactions, file, now)} :
            /\ Fits(out.db)
            /\ transactions' = out.db
            /\ response' = [op |-> "upload", file |-> file, status |-> out.status,
                            body |-> out.body, recorded |-> out.recorded]
            /\ UNCHANGED now

\* The framework sends the handler's answer; the next request may come.
Respond ==
    /\ response # NoResponse
    /\ response' = NoResponse
    /\ UNCHANGED <<transactions, now>>

\* Time passes between requests.
Tick ==
    /\ response = NoResponse
    /\ now < MaxTime
    /\ now' = now + 1
    /\ UNCHANGED <<transactions, response>>

(* --------------------------- specification ----------------------------- *)

Init ==
    /\ transactions = {}
    /\ now = ImportTime
    /\ response = NoResponse

\* Every endpoint of the transaction API.
Next ==
    \/ CreateTransaction
    \/ GetTransaction
    \/ GetTransactions
    \/ DeleteTransaction
    \/ GetDashboardSummary
    \/ UploadTransactionsCsv
    \/ Respond
    \/ Tick

Spec == Init /\ [][Next]_vars

(* ------------------------------ claims --------------------------------- *)

\* A handler has just answered a request of kind op.
Served(op) == response = NoResponse /\ response'.op = op

\* The upload just served had a .csv name and a readable table as content.
ServedTable ==
    /\ Served("upload")
    /\ response'.file.endswith_csv
    /\ response'.file.content.kind = "table"

\* A data row that passes every check of the import on its own.
RowValid(row) ==
    /\ row.category \in Category
    /\ row.transaction_type \in TransactionType
    /\ row.amount.parses
    /\ row.amount.value > 0
    /\ StrDescription(row.description) >= 1
    /\ StrDescription(row.description) <= 255

CountValid(rows) == Cardinality({i \in 1..Len(rows) : RowValid(rows[i])})

HeaderValid(content) == AllColumns \subseteq content.columns

\* C1: an upload whose header lacks a required column is answered 400, names
\* the missing columns and leaves the table as it was.
C1_MissingColumns400 ==
    [][(ServedTable /\ ~HeaderValid(response'.file.content))
        => /\ response'.status = 400
           /\ response'.body.missing = MissingColumns(response'.file.content.columns)
           /\ transactions' = transactions]_vars

\* C2: with a valid header the request succeeds, the rows already in the
\* table stay, and every row that is itself valid and whose own insert the
\* engine accepts is persisted, whatever failed before it.
C2_FailedRowBlocksNothing ==
    [][(ServedTable /\ HeaderValid(response'.file.content))
        => /\ response'.status = 200
           /\ transactions \subseteq transactions'
           /\ Cardinality(transactions' \ transactions)
                = Cardinality({i \in 1..Len(response'.file.content.rows) :
                        /\ RowValid(response'.file.content.rows[i])
                        /\ response'.file.content.rows[i].flush = "ok"})]_vars

\* C3: total_rows is the number of data rows, successful_imports the number
\* of rows the upload added, and the rows not imported have one recorded
\* error each, carrying the 1-based row number, an invalid category named in
\* preference to an invalid transaction_type.
C3_ReportAccurate ==
    [][(ServedTable /\ HeaderValid(response'.file.content))
        => LET rows == response'.file.content.rows
               body == response'.body
               rec == response'.recorded
           IN /\ body.total_rows = Len(rows)
              /\ transactions \subseteq transactions'
              /\ body.successful_imports = Cardinality(transactions' \ transactions)
              /\ body.successful_imports + Len(rec) = body.total_rows
              /\ \A k \in 1..Len(rec) :
                    /\ rec[k].row \in 1..Len(rows)
                    /\ k > 1 => rec[k - 1].row < rec[k].row
                    /\ rows[rec[k].row].category \notin Category
                        => /\ rec[k].kind = "Invalid category"
                           /\ rec[k].value = rows[rec[k].row].category
                    /\ (/\ rows[rec[k].row].category \in Category
                        /\ rows[rec[k].row].transaction_type \notin TransactionType)
                        => /\ rec[k].kind = "Invalid transaction_type"
                           /\ rec[k].value = rows[rec[k].row].transaction_type
              /\ \A i \in 1..Len(rows) :
                    ~RowValid(rows[i]) => \E k \in 1..Len(rec) : rec[k].row = i]_vars

C3_Witness ==
    /\ response.op = "upload"
    /\ response.status = 200
    /\ response.body.total_rows = 2
    /\ response.body.successful_imports = 1
    /\ Len(response.recorded) = 1
    /\ response.recorded[1].row = 2
    /\ response.recorded[1].kind = "Invalid category"
    /\ response.file.content.rows[2].transaction_type \notin TransactionType

C5_CreatedAtIsPersistenceTime ==
    [][/\ \A t \in transactions' \ transactions : t.created_at >= now
       /\ \A t \in transactions : \A u \in transactions' :
            t.id = u.id => t.created_at = u.created_at]_vars

\* C6 as claimed: an upload with no data rows (a zero-byte file or the header
\* line alone) or that is no tabular text is answered 400.
C6_NoRows400 ==
    (/\ response.op = "upload"
     /\ response.file.endswith_csv
     /\ \/ response.file.content.kind \in {"empty", "malformed"}
        \/ /\ response.file.content.kind = "table"
           /\ HeaderValid(response.file.content)
           /\ response.file.content.rows = <<>>)
    => response.status = 400

\* C6 as amended: a zero-byte file and a file that is no tabular text are
\* answered 400 and persist nothing; a header line alone, holding every
\* required column, is answered 200 with zero rows, zero imports, no errors.
C6_EmptyOrMalformed400 ==
    [][(Served("upload") /\ response'.file.endswith_csv)
        => /\ response'.file.content.kind \in {"empty", "malformed"}
                => /\ response'.status = 400
                   /\ transactions' = transactions
           /\ (/\ response'.file.content.kind = "table"
               /\ HeaderValid(response'.file.content)
               /\ response'.file.content.rows = <<>>)
                => /\ response'.status = 200
                   /\ response'.body.total_rows = 0
                   /\ response'.body.successful_imports = 0
                   /\ response'.body.errors = <<>>
                   /\ transactions' = transactions]_vars

C6_Witness ==
    /\ response.op = "upload"
    /\ response.file.endswith_csv
    /\ response.file.content.kind = "table"
    /\ HeaderValid(response.file.content)
    /\ response.file.content.rows = <<>>
    /\ response.status = 200
    /\ transactions # {}

C8_DeleteFrame ==
    [][Served("delete")
        => LET id == response'.transaction_id
           IN IF \E t \in transactions : t.id = id
              THEN /\ response'.status = 200
                   /\ transactions' = {t \in transactions : t.id # id}
                   /\ CrudGetTransaction(transactions', id) = {}
              ELSE /\ response'.status = 404
                   /\ transactions' = transactions]_vars

C8_Witness ==
    /\ response.op = "delete"
    /\ response.status = 200
    /\ transactions # {}

\* The amounts of the rows of one type, added up id by id.
RECURSIVE TotalOfType(_, _)
TotalOfType(type, id) ==
    IF id = 0 THEN 0
    ELSE TotalOfType(type, id - 1)
         + (IF \E t \in transactions : t.id = id /\ t.transaction_type = type
            THEN (CHOOSE t \in transactions : t.id = id).amount
            ELSE 0)

\* C9: the summary's total_income adds the INCOME rows and no other,
\* total_expenses the EXPENSE rows and no other (0 without any), net_worth is
\* their difference and transaction_count counts the rows of every type.
C9_SummaryTotals ==
    response.op = "summary"
    => /\ response.total_income = TotalOfType("income", MaxId)
       /\ response.total_expenses = TotalOfType("expense", MaxId)
       /\ response.net_worth = response.total_income - response.total_expenses
       /\ response.transaction_count = Cardinality(transactions)
       /\ transactions = {} => response.total_income = 0 /\ response.total_expenses = 0

C9_Witness ==
    /\ response.op = "summary"
    /\ response.total_income > 0
    /\ response.transaction_count = 2
    /\ \E t \in transactions : t.transaction_type = "transfer"

\* C10: a list request with skip K and limit N over M rows returns
\* max(0, min(N, M - K)) rows, the slice from offset K of the rows in
\* descending date order.
C10_PageIsSlice ==
    response.op = "list"
    => LET page == response.page
           K == response.skip
           N == response.limit
           M == Cardinality(transactions)
           inPage == {page[i] : i \in 1..Len(page)}
       IN /\ Len(page) = Max(0, Min(N, M - K))
          /\ inPage \subseteq transactions
          /\ Cardinality(inPage) = Len(page)
          /\ \A i \in 1..Len(page) : \A j \in 1..Len(page) :
                i < j => page[i].date >= page[j].date
          /\ \E before \in SUBSET (transactions \ inPage) :
                /\ Cardinality(before) = Min(K, M)
                /\ \A b \in before : \A p \in inPage : b.date >= p.date
                /\ \A a \in (transactions \ inPage) \ before :
                        /\ \A p \in inPage : p.date >= a.date
                        /\ \A b \in before : b.date >= a.date

C10_Witness ==
    /\ response.op = "list"
    /\ response.skip = 1
    /\ response.limit = 1
    /\ Len(response.page) = 1
    /\ \E t \in transactions : t.date > response.page[1].date

====
